---- MODULE Spec2Model ----
(***************************************************************************)
(* Model of the built-in notebook output renderer                          *)
(* (extensions/notebook-renderers/src/index.ts): the mime dispatcher       *)
(* renderOutputItem, the per-mime rendering strategies, script revival     *)
(* (domEval) and the disposables registry behind disposeOutputItem.        *)
(*                                                                         *)
(* The DOM is modelled by value.  A node is a record                       *)
(*   [tagName, classList, attributes, text, childNodes, inert]             *)
(* and the host's cell holds the rendering surfaces 1..NumSlots, surface e *)
(* being the first child of the e-th output container of the cell;         *)
(* surface 0 is detached (it has no parentElement).                        *)
(***************************************************************************)
EXTENDS Naturals, Sequences, FiniteSets, TLC

\* ------------------------------------------------------------------ bounds

\* sibling output containers in the cell (surface 0 is the detached one)
NumSlots == 3

\* host calls (render / dispose / trust change) in one behaviour of Spec
MaxCalls == 2

\* host calls in one behaviour of SpecLifecycle
MaxLifecycleCalls == 3

\* host calls in one behaviour of SpecStream
MaxStreamCalls == 3

\* host calls in one behaviour of SpecTrust
MaxTrustCalls == 3

\* activate calls in one behaviour of SpecLifecycle
MaxActivations == 2

\* ------------------------------------------------------- JavaScript values

\* the value of an absent argument or an absent property
Undefined == "<undefined>"

\* what getAttribute answers for an attribute that is not set
Null == "<null>"

\* JavaScript truthiness of a string-or-absent value: if (v), v && .., v || ..
Truthy(v) == v # Undefined /\ v # Null /\ v # ""

\* ------------------------------------------------------------------- nodes

NoAttributes == <<>>

Node(tag, classes, attrs, txt, kids, isInert) ==
    [tagName |-> tag, classList |-> classes, attributes |-> attrs,
     text |-> txt, childNodes |-> kids, inert |-> isInert]

\* document.createElement(tag)
createElement(tag) == Node(tag, {}, NoAttributes, "", <<>>, FALSE)

\* node.appendChild(child)
appendChild(node, child) ==
    [node EXCEPT !.childNodes = Append(@, child)]

\* node.classList.add(cls)
classListAdd(node, cls) ==
    [node EXCEPT !.classList = @ \cup {cls}]

\* node.setAttribute(name, value)
setAttribute(node, name, value) ==
    [node EXCEPT !.attributes =
        [k \in DOMAIN @ \cup {name} |-> IF k = name THEN value ELSE @[k]]]

\* node.getAttribute(name)
getAttribute(node, name) ==
    IF name \in DOMAIN node.attributes THEN node.attributes[name] ELSE Null

\* ------------------------------------------------------------------- state

VARIABLES
    disposables,   \* per activation: the Map<string, IDisposable>, id -> blob handle its disposer revokes
    objectURLs,    \* per blob handle made by URL.createObjectURL: "live" or "revoked"
    disposeCount,  \* per blob handle: how many times its disposer's dispose() ran
    isTrusted,     \* ctx.workspace.isTrusted
    dom,           \* per surface 0..NumSlots: the element handed to renderOutputItem
    inserted,      \* script nodes domEval inserted into a container (an inserted script node runs), in order
    last,          \* the most recent host call and what it did
    calls          \* host calls made so far

vars == <<disposables, objectURLs, disposeCount, isTrusted, dom, inserted, last, calls>>

Elements == 0 .. NumSlots

NoCall ==
    [op |-> "none", a |-> 0, id |-> Undefined, mime |-> "", text |-> "",
     element |-> 0, trusted |-> FALSE, strategy |-> "none", error |-> FALSE,
     raised |-> FALSE, invoked |-> {}, allocated |-> 0, mutated |-> {}]

Init ==
    /\ disposables = <<>>
    /\ objectURLs = <<>>
    /\ disposeCount = <<>>
    /\ isTrusted \in BOOLEAN
    /\ dom = [e \in Elements |-> createElement("div")]
    /\ inserted = <<>>
    /\ last = NoCall
    /\ calls = 0

\* ---------------------------------------------------------------- activate

\* activate(ctx): a closure over a fresh, empty Map
activate ==
    /\ disposables' = Append(disposables, <<>>)
    /\ last' = [NoCall EXCEPT !.op = "activate", !.a = Len(disposables) + 1]
    /\ UNCHANGED <<objectURLs, disposeCount, isTrusted, dom, inserted, calls>>

\* the host changes the workspace trust
setTrusted(b) ==
    /\ isTrusted # b
    /\ isTrusted' = b
    /\ last' = [NoCall EXCEPT !.op = "setTrusted", !.trusted = b]
    /\ calls' = calls + 1
    /\ UNCHANGED <<disposables, objectURLs, disposeCount, dom, inserted>>

\* ------------------------------------------------------------- renderImage

\* the string URL.createObjectURL returns for the h-th blob
blobURL(h) == "blob:" \o ToString(h)

\* renderImage(outputInfo, element): the element after the call; h is the
\* handle of the object URL the call creates
renderImage(outputInfo, element, h) ==
    LET image == setAttribute(createElement("img"), "src", blobURL(h))
        display == appendChild(classListAdd(createElement("div"), "display"), image)
    IN appendChild(element, display)

\* disposables.set(id, disposable)
MapSet(map, id, h) ==
    [k \in DOMAIN map \cup {id} |-> IF k = id THEN h ELSE map[k]]

\* ------------------------------------------------- external collaborators

\* the line cap renderStream and renderText pass to truncatedArrayOfString
LinesLimit == 30

RECURSIVE Repeat(_, _)
Repeat(str, n) == IF n = 0 THEN "" ELSE str \o Repeat(str, n - 1)

\* a text of LinesLimit + 1 lines
LongText == Repeat("x\n", LinesLimit) \o "x"

\* text.split on line breaks, for the texts the model renders
SplitLines(text) ==
    CASE text = LongText -> [i \in 1 .. LinesLimit + 1 |-> "x"]
      [] text = "out1\nout2" -> <<"out1", "out2">>
      [] OTHER -> <<text>>

RECURSIVE JoinLines(_)
JoinLines(lines) ==
    IF lines = <<>> THEN ""
    ELSE IF Len(lines) = 1 THEN lines[1]
    ELSE lines[1] \o "\n" \o JoinLines(Tail(lines))

\* handleANSIOutput(text) of ./ansi: a span holding the styled text
handleANSIOutput(text) ==
    [createElement("span") EXCEPT !.text = text]

\* truncatedArrayOfString([text], linesLimit, container) of ./textHelper: the
\* container after the call
truncatedArrayOfString(text, linesLimit, container) ==
    LET buffer == SplitLines(text) IN
    IF Len(buffer) <= linesLimit
    THEN appendChild(container, handleANSIOutput(JoinLines(buffer)))
    ELSE appendChild(
            appendChild(container, handleANSIOutput(JoinLines(SubSeq(buffer, 1, linesLimit)))),
            [createElement("span") EXCEPT !.text = "..."])

\* JSON.parse(text), for the texts the model renders: ok = FALSE is the
\* SyntaxError; kind is the type of the decoded value
JSONObject(fields) == [ok |-> TRUE, kind |-> "object", fields |-> fields]

JSONParse(text) ==
    CASE text = "not json" -> [ok |-> FALSE, kind |-> "none", fields |-> <<>>]
      [] text = "null" -> [ok |-> TRUE, kind |-> "null", fields |-> <<>>]
      [] text = "5" -> [ok |-> TRUE, kind |-> "number", fields |-> <<>>]
      [] text = "{}" -> JSONObject(<<>>)
      [] text = "{\"name\":\"TypeError\",\"message\":\"x is undefined\"}" ->
            JSONObject([k \in {"name", "message"} |->
                IF k = "name" THEN "TypeError" ELSE "x is undefined"])
      [] text = "{\"name\":\"E\"}" -> JSONObject([k \in {"name"} |-> "E"])
      [] text = "{\"message\":\"m\"}" -> JSONObject([k \in {"message"} |-> "m"])
      [] text = "{\"name\":\"\",\"message\":\"m\"}" ->
            JSONObject([k \in {"name", "message"} |-> IF k = "name" THEN "" ELSE "m"])
      [] text = "{\"stack\":\"trace\"}" -> JSONObject([k \in {"stack"} |-> "trace"])
      [] text = "{\"stack\":\"trace\",\"name\":\"E\",\"message\":\"m\"}" ->
            JSONObject([k \in {"stack", "name", "message"} |->
                IF k = "stack" THEN "trace" ELSE IF k = "name" THEN "E" ELSE "m"])
      [] text = "{\"stack\":\"\",\"name\":\"E\",\"message\":\"m\"}" ->
            JSONObject([k \in {"stack", "name", "message"} |->
                IF k = "stack" THEN "" ELSE IF k = "name" THEN "E" ELSE "m"])
      [] OTHER -> [ok |-> FALSE, kind |-> "none", fields |-> <<>>]

\* value.key of a decoded value other than null
Property(value, key) ==
    IF value.kind = "object" /\ key \in DOMAIN value.fields
    THEN value.fields[key]
    ELSE Undefined

\* the fragment `<script type="application/javascript">${str}</script>`
ScriptFragment(str) ==
    "<script type=\"application/javascript\">" \o str \o "</script>"

JsTexts == {"f()"}

HtmlPlain == "<p>hi</p>"
HtmlScripts == "<script>a()</script><p>x</p><script src=\"s.js\" id=\"k\">b()</script>"
HtmlNested == "<div><script>n()</script></div>"

\* a script element as the HTML parser makes it for innerHTML: it never runs
ParsedScript(attrs, body) == Node("script", {}, attrs, body, <<>>, TRUE)

\* element.innerHTML = html: the child nodes the parser makes, for the
\* fragments the model renders
ParseHTML(html) ==
    CASE html = HtmlPlain -> << [createElement("p") EXCEPT !.text = "hi"] >>
      [] html = HtmlScripts ->
            << ParsedScript(NoAttributes, "a()"),
               [createElement("p") EXCEPT !.text = "x"],
               ParsedScript([k \in {"src", "id"} |-> IF k = "src" THEN "s.js" ELSE "k"], "b()") >>
      [] html = HtmlNested ->
            << appendChild(createElement("div"), ParsedScript(NoAttributes, "n()")) >>
      [] \E str \in JsTexts : html = ScriptFragment(str) ->
            LET str == CHOOSE t \in JsTexts : html = ScriptFragment(t)
            IN << ParsedScript([k \in {"type"} |-> "application/javascript"], str) >>
      [] OTHER -> << [createElement("#text") EXCEPT !.text = html] >>

\* ------------------------------------------------------------ ttPolicy

\* ttPolicy?.createHTML(value) ?? value
createHTML(value) == value

\* ttPolicy?.createScript(value) ?? value
createScript(value) == value

\* ----------------------------------------------------------------- domEval

preservedScriptAttributes == <<"type", "src", "nonce", "noModule", "async">>

RECURSIVE getElementsByTagName(_, _)
RECURSIVE ElementsIn(_, _)

\* the descendants of node with the tag, in document order
getElementsByTagName(node, tag) == ElementsIn(node.childNodes, tag)

ElementsIn(nodes, tag) ==
    IF nodes = <<>> THEN <<>>
    ELSE (IF nodes[1].tagName = tag THEN <<nodes[1]>> ELSE <<>>)
         \o getElementsByTagName(nodes[1], tag)
         \o ElementsIn(Tail(nodes), tag)

RECURSIVE CopyAttributes(_, _, _)
\* the loop over preservedScriptAttributes, from key number i on
CopyAttributes(node, scriptTag, i) ==
    IF i > Len(preservedScriptAttributes) THEN scriptTag
    ELSE LET key == preservedScriptAttributes[i]
             val == getAttribute(node, key)
         IN CopyAttributes(node,
                IF Truthy(val) THEN setAttribute(scriptTag, key, val) ELSE scriptTag,
                i + 1)

\* the script element one round of the loop constructs for node
NewScriptTag(node) ==
    CopyAttributes(node, [createElement("script") EXCEPT !.text = createScript(node.text)], 1)

\* node.removeChild(child), child being the last child of node that equals it
removeChild(node, child) ==
    LET at == {i \in 1 .. Len(node.childNodes) : node.childNodes[i] = child}
        last_ == CHOOSE i \in at : \A j \in at : j <= i
    IN IF at = {} THEN node
       ELSE [node EXCEPT !.childNodes =
                SubSeq(@, 1, last_ - 1) \o SubSeq(@, last_ + 1, Len(@))]

RECURSIVE domEvalLoopKeepsScript(_, _, _)
\* domEvalLoop without the removeChild: the new script node stays in the container
domEvalLoopKeepsScript(st, arr, n) ==
    IF n > Len(arr) THEN st
    ELSE LET scriptTag == NewScriptTag(arr[n])
         IN domEvalLoopKeepsScript(
                [container |-> appendChild(st.container, scriptTag),
                 inserted |-> Append(st.inserted, scriptTag)],
                arr, n + 1)

RECURSIVE domEvalLoop(_, _, _)
\* the for loop of domEval from arr[n] on: the container after it, and the
\* script nodes it inserted
domEvalLoop(st, arr, n) ==
    IF n > Len(arr) THEN st
    ELSE LET scriptTag == NewScriptTag(arr[n])
             appended == appendChild(st.container, scriptTag)
         IN domEvalLoop(
                [container |-> removeChild(appended, scriptTag),
                 inserted |-> Append(st.inserted, scriptTag)],
                arr, n + 1)

domEval(container) ==
    domEvalLoop([container |-> container, inserted |-> <<>>],
                getElementsByTagName(container, "script"), 1)

\* -------------------------------------------------------------- strategies

\* renderHTML(outputInfo, container): the container after the call and the
\* script nodes inserted
renderHTML(outputInfo, container) ==
    LET htmlContent == outputInfo.text
        element == [createElement("div") EXCEPT !.childNodes = ParseHTML(createHTML(htmlContent))]
        evald == domEval(element)
    IN [container |-> appendChild(container, evald.container),
        inserted |-> evald.inserted, raised |-> FALSE]

\* renderJavascript(outputInfo, container)
renderJavascript(outputInfo, container) ==
    LET str == outputInfo.text
        scriptVal == ScriptFragment(str)
        element == [createElement("div") EXCEPT !.childNodes = ParseHTML(createHTML(scriptVal))]
        evald == domEval(element)
    IN [container |-> appendChild(container, evald.container),
        inserted |-> evald.inserted, raised |-> FALSE]

\* HeaderMessage without the "name: message" form: err.name || err.message
HeaderMessageEither(err) ==
    LET name == Property(err, "name")
        message == Property(err, "message")
    IN IF Truthy(name) THEN name ELSE message

\* the header line renderError composes from name and message
HeaderMessage(err) ==
    LET name == Property(err, "name")
        message == Property(err, "message")
    IN IF Truthy(name) /\ Truthy(message) THEN name \o ": " \o message
       ELSE IF Truthy(name) THEN name ELSE message

\* renderError with classList.add('error') inside the stack branch only
renderErrorMarksStackOnly(outputInfo, container) ==
    LET withElement == appendChild(container, createElement("div"))
        err == JSONParse(outputInfo.text)
    IN IF ~err.ok
       THEN [container |-> withElement, inserted |-> <<>>, raised |-> FALSE]
       ELSE IF err.kind = "null"
       THEN [container |-> withElement, inserted |-> <<>>, raised |-> TRUE]
       ELSE IF Truthy(Property(err, "stack"))
       THEN LET stack == appendChild(
                    setAttribute(classListAdd(createElement("pre"), "traceback"),
                                 "style", "margin: 8px 0"),
                    handleANSIOutput(Property(err, "stack")))
            IN [container |-> classListAdd(appendChild(withElement, stack), "error"),
                inserted |-> <<>>, raised |-> FALSE]
       ELSE LET headerMessage == HeaderMessage(err)
                header == [createElement("div") EXCEPT !.text = headerMessage]
            IN [container |-> IF Truthy(headerMessage) THEN appendChild(withElement, header)
                              ELSE withElement,
                inserted |-> <<>>, raised |-> FALSE]

\* renderError(outputInfo, container): the container after the call, and
\* whether the call raised
renderError(outputInfo, container) ==
    LET withElement == appendChild(container, createElement("div"))
        err == JSONParse(outputInfo.text)
    IN IF ~err.ok
       THEN [container |-> withElement, inserted |-> <<>>, raised |-> FALSE]
       ELSE IF err.kind = "null"
       THEN [container |-> withElement, inserted |-> <<>>, raised |-> TRUE]
       ELSE IF Truthy(Property(err, "stack"))
       THEN LET stack == appendChild(
                    setAttribute(classListAdd(createElement("pre"), "traceback"),
                                 "style", "margin: 8px 0"),
                    handleANSIOutput(Property(err, "stack")))
            IN [container |-> classListAdd(appendChild(withElement, stack), "error"),
                inserted |-> <<>>, raised |-> FALSE]
       ELSE LET headerMessage == HeaderMessage(err)
                header == [createElement("div") EXCEPT !.text = headerMessage]
            IN [container |-> classListAdd(
                    IF Truthy(headerMessage) THEN appendChild(withElement, header)
                    ELSE withElement, "error"),
                inserted |-> <<>>, raised |-> FALSE]

\* container.parentElement: the output container of surface e; 0 stands for null
parentElement(e) == e

\* outputContainer.previousSibling: the output container before it in the cell
previousSibling(oc) == IF oc > 1 THEN oc - 1 ELSE 0

\* prev.firstChild: the surface of that output container
firstChild(oc) == oc

\* renderStream without the early return for a container that has no
\* parentElement: the chunk is rendered as a new block
renderStreamNoParentCheck(outputInfo, d, e, error) ==
    LET outputContainer == parentElement(e)
        prev == previousSibling(outputContainer)
        outputElement == d[firstChild(prev)]
        created == truncatedArrayOfString(outputInfo.text, LinesLimit,
                        classListAdd(createElement("span"), "output-stream"))
        tagged == setAttribute(appendChild(d[e], created), "output-mime-type", outputInfo.mime)
    IN IF prev # 0 /\ getAttribute(outputElement, "output-mime-type") = outputInfo.mime
       THEN [d EXCEPT ![firstChild(prev)] =
                appendChild(@, truncatedArrayOfString(outputInfo.text, LinesLimit,
                                                      createElement("span")))]
       ELSE [d EXCEPT ![e] = IF error THEN classListAdd(tagged, "error") ELSE tagged]

\* renderStream without the return that ends the "same stream" branch: the
\* chunk is appended to the previous block and a new block is created as well
renderStreamNoReturn(outputInfo, d, e, error) ==
    LET outputContainer == parentElement(e)
        prev == previousSibling(outputContainer)
        outputElement == d[firstChild(prev)]
        same == prev # 0 /\ getAttribute(outputElement, "output-mime-type") = outputInfo.mime
        created == truncatedArrayOfString(outputInfo.text, LinesLimit,
                        classListAdd(createElement("span"), "output-stream"))
        tagged == setAttribute(appendChild(d[e], created), "output-mime-type", outputInfo.mime)
    IN IF outputContainer = 0 THEN d
       ELSE [x \in DOMAIN d |->
                IF x = e THEN (IF error THEN classListAdd(tagged, "error") ELSE tagged)
                ELSE IF same /\ x = firstChild(prev)
                THEN appendChild(d[x], truncatedArrayOfString(outputInfo.text, LinesLimit,
                                                              createElement("span")))
                ELSE d[x]]

\* renderStream(outputInfo, container, error), container being surface e of
\* the tree d: the tree after the call
renderStream(outputInfo, d, e, error) ==
    LET outputContainer == parentElement(e)
        prev == previousSibling(outputContainer)
        outputElement == d[firstChild(prev)]
        created == truncatedArrayOfString(outputInfo.text, LinesLimit,
                        classListAdd(createElement("span"), "output-stream"))
        tagged == setAttribute(appendChild(d[e], created), "output-mime-type", outputInfo.mime)
    IN IF outputContainer = 0 THEN d
       ELSE IF prev # 0 /\ getAttribute(outputElement, "output-mime-type") = outputInfo.mime
       THEN [d EXCEPT ![firstChild(prev)] =
                appendChild(@, truncatedArrayOfString(outputInfo.text, LinesLimit,
                                                      createElement("span")))]
       ELSE [d EXCEPT ![e] = IF error THEN classListAdd(tagged, "error") ELSE tagged]

\* renderText(outputInfo, container)
renderText(outputInfo, container) ==
    LET contentNode == classListAdd(createElement("div"), ".output-plaintext")
    IN appendChild(container, truncatedArrayOfString(outputInfo.text, LinesLimit, contentNode))

\* -------------------------------------------------------- renderOutputItem

\* what one renderOutputItem call leaves: the tree, the Map, whether an object
\* URL was created, the script nodes inserted, the strategy that ran (with the
\* error argument of renderStream) and whether the call raised
Outcome(d, map, alloc, ins, strategy, error, raised) ==
    [dom |-> d, map |-> map, alloc |-> alloc, inserted |-> ins,
     strategy |-> strategy, error |-> error, raised |-> raised]

\* a case that returns without rendering (untrusted workspace, or default)
Ignored(d, map) == Outcome(d, map, FALSE, <<>>, "none", FALSE, FALSE)

\* case 'text/html': case 'image/svg+xml':
markupCaseLabels == {"text/html", "image/svg+xml"}

\* markupCase without the isTrusted check
markupCaseUngated(outputInfo, e, d, map, trusted) ==
    LET r == renderHTML(outputInfo, d[e])
    IN Outcome([d EXCEPT ![e] = r.container], map, FALSE, r.inserted,
               "renderHTML", FALSE, r.raised)

markupCase(outputInfo, e, d, map, trusted) ==
    IF ~trusted THEN Ignored(d, map)
    ELSE LET r == renderHTML(outputInfo, d[e])
         IN Outcome([d EXCEPT ![e] = r.container], map, FALSE, r.inserted,
                    "renderHTML", FALSE, r.raised)

\* case 'application/javascript':
scriptCaseLabels == {"application/javascript"}

\* scriptCase without the isTrusted check
scriptCaseUngated(outputInfo, e, d, map, trusted) ==
    LET r == renderJavascript(outputInfo, d[e])
    IN Outcome([d EXCEPT ![e] = r.container], map, FALSE, r.inserted,
               "renderJavascript", FALSE, r.raised)

scriptCase(outputInfo, e, d, map, trusted) ==
    IF ~trusted THEN Ignored(d, map)
    ELSE LET r == renderJavascript(outputInfo, d[e])
         IN Outcome([d EXCEPT ![e] = r.container], map, FALSE, r.inserted,
                    "renderJavascript", FALSE, r.raised)

\* imageCaseLabels without the legacy 'image/git' label
imageCaseLabelsNoLegacy == {"image/gif", "image/png", "image/jpeg"}

\* case 'image/gif': case 'image/png': case 'image/jpeg': case 'image/git':
imageCaseLabels == {"image/gif", "image/png", "image/jpeg", "image/git"}

\* h is the handle the next URL.createObjectURL gives
imageCase(outputInfo, e, d, map, h) ==
    Outcome([d EXCEPT ![e] = renderImage(outputInfo, d[e], h)],
            MapSet(map, outputInfo.id, h), TRUE, <<>>, "renderImage", FALSE, FALSE)

\* case 'application/vnd.code.notebook.error':
errorCaseLabels == {"application/vnd.code.notebook.error"}

errorCase(outputInfo, e, d, map) ==
    LET r == renderError(outputInfo, d[e])
    IN Outcome([d EXCEPT ![e] = r.container], map, FALSE, r.inserted,
               "renderError", FALSE, r.raised)

\* the three stdout case labels
stdoutCaseLabels == {"application/vnd.code.notebook.stdout",
                     "application/x.notebook.stdout",
                     "application/x.notebook.stream"}

stdoutCase(outputInfo, e, d, map) ==
    Outcome(renderStream(outputInfo, d, e, FALSE), map, FALSE, <<>>,
            "renderStream", FALSE, FALSE)

\* the two stderr case labels
stderrCaseLabels == {"application/vnd.code.notebook.stderr",
                     "application/x.notebook.stderr"}

stderrCase(outputInfo, e, d, map) ==
    Outcome(renderStream(outputInfo, d, e, TRUE), map, FALSE, <<>>,
            "renderStream", TRUE, FALSE)

\* case 'text/plain':
textCaseLabels == {"text/plain"}

textCase(outputInfo, e, d, map) ==
    Outcome([d EXCEPT ![e] = renderText(outputInfo, d[e])], map, FALSE, <<>>,
            "renderText", FALSE, FALSE)

\* the switch of renderOutputItem on outputInfo.mime, on the tree d with
\* container = surface e
switch(outputInfo, e, d, map, trusted, h) ==
    LET mime == outputInfo.mime
    IN CASE mime \in markupCaseLabels -> markupCase(outputInfo, e, d, map, trusted)
         [] mime \in scriptCaseLabels -> scriptCase(outputInfo, e, d, map, trusted)
         [] mime \in imageCaseLabels -> imageCase(outputInfo, e, d, map, h)
         [] mime \in errorCaseLabels -> errorCase(outputInfo, e, d, map)
         [] mime \in stdoutCaseLabels -> stdoutCase(outputInfo, e, d, map)
         [] mime \in stderrCaseLabels -> stderrCase(outputInfo, e, d, map)
         [] mime \in textCaseLabels -> textCase(outputInfo, e, d, map)
         [] OTHER -> Ignored(d, map)

\* renderOutputItem with the Map declared outside activate: one Map that
\* every activation's closure writes to
renderOutputItemSharedMap(a, outputInfo, e) ==
    LET h == Len(objectURLs) + 1
        r == switch(outputInfo, e, dom, disposables[a], isTrusted, h)
    IN /\ dom' = r.dom
       /\ disposables' = [b \in DOMAIN disposables |-> r.map]
       /\ objectURLs' = IF r.alloc THEN Append(objectURLs, "live") ELSE objectURLs
       /\ disposeCount' = IF r.alloc THEN Append(disposeCount, 0) ELSE disposeCount
       /\ inserted' = inserted \o r.inserted
       /\ last' = [NoCall EXCEPT !.op = "render", !.a = a, !.id = outputInfo.id,
                                 !.mime = outputInfo.mime, !.text = outputInfo.text,
                                 !.element = e, !.trusted = isTrusted,
                                 !.strategy = r.strategy, !.error = r.error,
                                 !.raised = r.raised,
                                 !.allocated = IF r.alloc THEN h ELSE 0,
                                 !.mutated = {x \in Elements : r.dom[x] # dom[x]}]
       /\ calls' = calls + 1
       /\ UNCHANGED isTrusted

\* renderOutputItem(outputInfo, element) of activation a, element being surface e
renderOutputItem(a, outputInfo, e) ==
    LET h == Len(objectURLs) + 1
        r == switch(outputInfo, e, dom, disposables[a], isTrusted, h)
    IN /\ dom' = r.dom
       /\ disposables' = [disposables EXCEPT ![a] = r.map]
       /\ objectURLs' = IF r.alloc THEN Append(objectURLs, "live") ELSE objectURLs
       /\ disposeCount' = IF r.alloc THEN Append(disposeCount, 0) ELSE disposeCount
       /\ inserted' = inserted \o r.inserted
       /\ last' = [NoCall EXCEPT !.op = "render", !.a = a, !.id = outputInfo.id,
                                 !.mime = outputInfo.mime, !.text = outputInfo.text,
                                 !.element = e, !.trusted = isTrusted,
                                 !.strategy = r.strategy, !.error = r.error,
                                 !.raised = r.raised,
                                 !.allocated = IF r.alloc THEN h ELSE 0,
                                 !.mutated = {x \in Elements : r.dom[x] # dom[x]}]
       /\ calls' = calls + 1
       /\ UNCHANGED isTrusted

\* -------------------------------------------------------- disposeOutputItem

\* the disposers disposeOutputItem(id) invokes on the Map
DisposersInvoked(map, id) ==
    IF Truthy(id)
    THEN IF id \in DOMAIN map THEN {map[id]} ELSE {}
    ELSE {map[k] : k \in DOMAIN map}

\* disposeOutputItem(id) of activation a; id = Undefined is the call without identity
disposeOutputItem(a, id) ==
    LET hs == DisposersInvoked(disposables[a], id) IN
    /\ objectURLs' = [h \in DOMAIN objectURLs |-> IF h \in hs THEN "revoked" ELSE objectURLs[h]]
    /\ disposeCount' = [h \in DOMAIN disposeCount |-> IF h \in hs THEN disposeCount[h] + 1 ELSE disposeCount[h]]
    /\ last' = [NoCall EXCEPT !.op = "dispose", !.a = a, !.id = id, !.invoked = hs]
    /\ calls' = calls + 1
    /\ UNCHANGED <<disposables, isTrusted, dom, inserted>>

\* ------------------------------------------------------------------ inputs

OutputItem(id, mime, text) == [id |-> id, mime |-> mime, text |-> text]

\* output identities; the empty string is a string like any other
Ids == {"", "a", "b"}

MarkupMimes == {"text/html", "image/svg+xml"}
ScriptMimes == {"application/javascript"}
ImageMimes == {"image/gif", "image/png", "image/jpeg", "image/git"}
ErrorMimes == {"application/vnd.code.notebook.error"}
StdoutMimes == {"application/vnd.code.notebook.stdout",
                "application/x.notebook.stdout",
                "application/x.notebook.stream"}
StderrMimes == {"application/vnd.code.notebook.stderr",
                "application/x.notebook.stderr"}
TextMimes == {"text/plain"}
KnownMimes == MarkupMimes \cup ScriptMimes \cup ImageMimes \cup ErrorMimes
              \cup StdoutMimes \cup StderrMimes \cup TextMimes
OtherMimes == {"application/json", "image/bmp", "text/markdown", "TEXT/HTML"}

HtmlTexts == {HtmlPlain, HtmlScripts, HtmlNested}

ErrorTexts ==
    {"not json", "null", "5", "{}",
     "{\"name\":\"TypeError\",\"message\":\"x is undefined\"}",
     "{\"name\":\"E\"}", "{\"message\":\"m\"}", "{\"name\":\"\",\"message\":\"m\"}",
     "{\"stack\":\"trace\"}", "{\"stack\":\"trace\",\"name\":\"E\",\"message\":\"m\"}",
     "{\"stack\":\"\",\"name\":\"E\",\"message\":\"m\"}"}

StreamTexts == {"out1", "out2"}

\* every kind of payload the dispatcher can be handed
OutputItems ==
    {OutputItem("a", m, t) : m \in MarkupMimes, t \in HtmlTexts}
    \cup {OutputItem("a", m, t) : m \in ScriptMimes, t \in JsTexts}
    \cup {OutputItem(i, m, "") : i \in {"a", "b"}, m \in ImageMimes}
    \cup {OutputItem("a", m, t) : m \in ErrorMimes, t \in ErrorTexts}
    \cup {OutputItem("a", m, "out1") : m \in StdoutMimes \cup StderrMimes}
    \cup {OutputItem("a", m, t) : m \in TextMimes, t \in {"out1\nout2", LongText}}
    \cup {OutputItem("a", m, "out1") : m \in OtherMimes}

\* the image payloads of the lifecycle scenarios
ImageItems == {OutputItem(i, "image/png", "") : i \in Ids}

\* the stream chunks of the coalescing scenarios, and one non-stream output
StreamItems ==
    {OutputItem("a", "application/vnd.code.notebook.stdout", t) : t \in StreamTexts}
    \cup {OutputItem("a", m, "out1") :
            m \in {"application/x.notebook.stream", "application/vnd.code.notebook.stderr",
                   "text/plain"}}

\* ---------------------------------------------------------- specifications

\* the host activates once, then renders any payload into the first two
\* surfaces of the cell, disposes, or changes the workspace trust
Next ==
    \/ disposables = <<>> /\ activate
    \/ /\ disposables # <<>>
       /\ calls < MaxCalls
       /\ \/ \E o \in OutputItems, e \in {1, 2} : renderOutputItem(1, o, e)
          \/ \E id \in Ids \cup {Undefined} : disposeOutputItem(1, id)
          \/ \E b \in BOOLEAN : setTrusted(b)

Spec == Init /\ [][Next]_vars

\* images rendered and disposed through up to MaxActivations activations
NextLifecycle ==
    \/ Len(disposables) < MaxActivations /\ activate
    \/ /\ calls < MaxLifecycleCalls
       /\ \E a \in DOMAIN disposables :
            \/ \E o \in ImageItems, e \in {1} : renderOutputItem(a, o, e)
            \/ \E id \in Ids \cup {Undefined} : disposeOutputItem(a, id)

SpecLifecycle == Init /\ [][NextLifecycle]_vars

\* stream chunks rendered into the surfaces of one cell
NextStream ==
    \/ disposables = <<>> /\ activate
    \/ /\ disposables # <<>>
       /\ calls < MaxStreamCalls
       /\ \E o \in StreamItems, e \in Elements : renderOutputItem(1, o, e)

SpecStream == Init /\ [][NextStream]_vars

\* the payloads the trust gate applies to
GatedItems ==
    {OutputItem("a", m, t) : m \in MarkupMimes, t \in HtmlTexts}
    \cup {OutputItem("a", m, t) : m \in ScriptMimes, t \in JsTexts}

\* markup and script payloads rendered while the host changes the workspace trust
NextTrust ==
    \/ disposables = <<>> /\ activate
    \/ /\ disposables # <<>>
       /\ calls < MaxTrustCalls
       /\ \/ \E o \in GatedItems, e \in {1} : renderOutputItem(1, o, e)
          \/ \E b \in BOOLEAN : setTrusted(b)

SpecTrust == Init /\ [][NextTrust]_vars

\* ============================================================== properties

\* a step that is one renderOutputItem call
RenderStep == calls' = calls + 1 /\ last'.op = "render"

\* a step that is one disposeOutputItem call
DisposeStep == calls' = calls + 1 /\ last'.op = "dispose"

\* the children a step appended to surface e
NewChildren(e) ==
    SubSeq(dom'[e].childNodes, Len(dom[e].childNodes) + 1, Len(dom'[e].childNodes))

RECURSIVE TextContent(_)
RECURSIVE TextContentOf(_)
\* node.textContent
TextContent(node) == node.text \o TextContentOf(node.childNodes)

TextContentOf(nodes) ==
    IF nodes = <<>> THEN "" ELSE TextContent(nodes[1]) \o TextContentOf(Tail(nodes))

\* ------------------------------------------------------------------- C1

\* C1 (as claimed; fails on the code): for an identity i (non-empty, so that
\* the call is a dispose-one), the first disposeOutputItem(i) after an image
\* with identity i was rendered invokes the Disposer registered for i exactly
\* once and removes the entry of i; every later disposeOutputItem(i) invokes
\* no Disposer.
C1_FirstDisposeRemovesLaterDisposeIdle ==
    [][ (DisposeStep /\ last'.id \in Ids \ {""}) =>
            LET a == last'.a
                i == last'.id
                map == disposables[a]
            IN IF i \in DOMAIN map /\ disposeCount[map[i]] = 0
               THEN /\ last'.invoked = {map[i]}
                    /\ disposeCount'[map[i]] = 1
                    /\ i \notin DOMAIN disposables'[a]
               ELSE last'.invoked = {} ]_vars

\* ------------------------------------------------------------------- C2

\* C2 (as claimed; fails on the code): disposeOutputItem() with no identity
\* invokes every registered Disposer exactly once and leaves the registry
\* empty, and a dispose call that follows it directly invokes no Disposer.
C2_DisposeAllEmptiesRegistry ==
    [][ /\ (DisposeStep /\ last'.id = Undefined) =>
              LET a == last'.a
                  hs == {disposables[a][k] : k \in DOMAIN disposables[a]}
              IN /\ last'.invoked = hs
                 /\ \A h \in DOMAIN disposeCount :
                        disposeCount'[h] = disposeCount[h] + (IF h \in hs THEN 1 ELSE 0)
                 /\ DOMAIN disposables'[a] = {}
        /\ (DisposeStep /\ last.op = "dispose" /\ last.id = Undefined /\ last'.a = last.a) =>
              last'.invoked = {} ]_vars

\* ------------------------------------------------------------------- C3

\* C3 (as claimed; fails on the code): with one activation, right after a
\* disposeOutputItem() with no identity every object URL renderImage ever
\* created is revoked.
C3_DisposeAllReleasesEveryHandle ==
    (Len(disposables) = 1 /\ last.op = "dispose" /\ last.id = Undefined) =>
        \A h \in DOMAIN objectURLs : objectURLs[h] = "revoked"

\* ------------------------------------------------------------------- C4

GatedMimes == MarkupMimes \cup ScriptMimes

\* C4: a render of a text/html, image/svg+xml or application/javascript
\* payload in an untrusted workspace leaves every surface and the registry as
\* they were (and inserts no script, creates no object URL); in a trusted
\* workspace the markup/script strategy runs and changes the surface.
C4_TrustGating ==
    [][ (RenderStep /\ last'.mime \in GatedMimes) =>
            LET e == last'.element IN
            IF ~isTrusted
            THEN /\ dom' = dom
                 /\ disposables' = disposables
                 /\ inserted' = inserted
                 /\ objectURLs' = objectURLs
                 /\ last'.strategy = "none"
            ELSE /\ dom'[e] # dom[e]
                 /\ last'.strategy =
                        (IF last'.mime \in ScriptMimes THEN "renderJavascript" ELSE "renderHTML")
                 /\ disposables' = disposables ]_vars

\* C4 witness: a script payload was handed to an untrusted workspace's
\* renderer, for a surface that already shows something
C4_Witness ==
    /\ last.op = "render"
    /\ last.mime = "application/javascript"
    /\ ~last.trusted
    /\ last.mutated = {}
    /\ dom[last.element].childNodes # <<>>

\* ------------------------------------------------------------------- C5

\* the dispatch table of the specification: the strategy a mime maps to
TableStrategy(mime, trusted) ==
    CASE mime \in MarkupMimes -> IF trusted THEN "renderHTML" ELSE "none"
      [] mime \in ScriptMimes -> IF trusted THEN "renderJavascript" ELSE "none"
      [] mime \in ImageMimes -> "renderImage"
      [] mime \in ErrorMimes -> "renderError"
      [] mime \in StdoutMimes \cup StderrMimes -> "renderStream"
      [] mime \in TextMimes -> "renderText"
      [] OTHER -> "none"

\* C5: every render runs exactly the strategy the dispatch table maps the mime
\* to, for both trust values: raster images (image/git included) render and
\* register a Disposer under the payload identity; the stdout aliases render as
\* non-error stream and the stderr aliases as error stream; structured error
\* and text/plain render; any other mime leaves surfaces and registry as they were.
C5_DispatchTable ==
    [][ RenderStep =>
            LET m == last'.mime
                e == last'.element
                a == last'.a
            IN /\ last'.strategy = TableStrategy(m, isTrusted)
               /\ last'.error = (m \in StderrMimes)
               /\ m \in ImageMimes =>
                    /\ dom'[e] # dom[e]
                    /\ Len(objectURLs') = Len(objectURLs) + 1
                    /\ objectURLs'[Len(objectURLs')] = "live"
                    /\ last'.id \in DOMAIN disposables'[a]
                    /\ disposables'[a][last'.id] = Len(objectURLs')
               /\ m \in ErrorMimes \cup TextMimes => dom'[e] # dom[e]
               /\ m \in StdoutMimes \cup StderrMimes =>
                    /\ last'.mutated # {}
                    /\ disposables' = disposables
                    /\ (m \in StderrMimes /\ e \in last'.mutated) => "error" \in dom'[e].classList
                    /\ m \in StdoutMimes => dom'[e].classList = dom[e].classList
               /\ m \notin KnownMimes => dom' = dom /\ disposables' = disposables ]_vars

\* C5 witness: the legacy image/git alias was rendered and its Disposer registered
C5_Witness ==
    /\ last.op = "render"
    /\ last.mime = "image/git"
    /\ last.strategy = "renderImage"
    /\ last.id \in DOMAIN disposables[last.a]
    /\ disposables[last.a][last.id] = last.allocated

\* ------------------------------------------------------------------- C6

StreamMarker == "output-mime-type"

\* C6: (a) when a stream render created a block on its own surface j and the
\* next call renders a stream payload of the same mime into the next sibling
\* slot j + 1, that second render appends its text as one node to the block of
\* surface j and leaves its own surface as it was; (b) when the surface of the
\* preceding sibling slot carries another marker, or none (a non-stream
\* output), a stream render appends one new block to its own surface, tags the
\* surface with payload.mime, and adds the error mark exactly when isError.
C6_StreamCoalescing ==
    [][ (RenderStep /\ last'.strategy = "renderStream" /\ last'.element >= 2) =>
            LET e == last'.element
                m == last'.mime
            IN /\ ( /\ last.op = "render"
                    /\ last.strategy = "renderStream"
                    /\ last.element = e - 1
                    /\ last.mutated = {e - 1}
                    /\ last.mime = m ) =>
                        /\ dom'[e] = dom[e]
                        /\ last'.mutated = {e - 1}
                        /\ Len(NewChildren(e - 1)) = 1
                        /\ TextContent(NewChildren(e - 1)[1]) = last'.text
                        /\ dom'[e - 1] = appendChild(dom[e - 1], NewChildren(e - 1)[1])
               /\ getAttribute(dom[e - 1], StreamMarker) # m =>
                        /\ last'.mutated = {e}
                        /\ Len(NewChildren(e)) = 1
                        /\ TextContent(NewChildren(e)[1]) = last'.text
                        /\ getAttribute(dom'[e], StreamMarker) = m
                        /\ dom'[e].classList =
                              (IF last'.error THEN dom[e].classList \cup {"error"}
                               ELSE dom[e].classList)
                        /\ last'.error = (m \in StderrMimes) ]_vars

\* C6 witness: the second of two same-mime chunks was merged into the block
\* of the slot before it, its own surface staying empty
C6_Witness ==
    /\ last.op = "render"
    /\ last.strategy = "renderStream"
    /\ last.element >= 2
    /\ last.mutated = {last.element - 1}
    /\ Len(dom[last.element - 1].childNodes) = 2
    /\ getAttribute(dom[last.element - 1], StreamMarker) = last.mime
    /\ dom[last.element].childNodes = <<>>

\* ------------------------------------------------------------------- C7

\* C7 (as claimed; fails on the code): a structured-error payload whose text
\* does not decode is rendered without raising, and leaves the surface exactly
\* as it was: no child added, no error mark set.
C7_DecodeFailureLeavesSurface ==
    [][ (RenderStep /\ last'.mime \in ErrorMimes /\ ~JSONParse(last'.text).ok) =>
            /\ ~last'.raised
            /\ dom' = dom ]_vars

\* ------------------------------------------------------------------- C8

\* the markup a markup/script render injects
InjectedMarkup(call) ==
    IF call.mime \in ScriptMimes THEN ScriptFragment(call.text) ELSE call.text

RECURSIVE Skeleton(_)
\* a forest with everything but tag, text and position of its nodes dropped
Skeleton(nodes) ==
    [i \in 1 .. Len(nodes) |->
        [tagName |-> nodes[i].tagName, text |-> nodes[i].text,
         childNodes |-> Skeleton(nodes[i].childNodes)]]

SeqToSet(seq) == {seq[i] : i \in 1 .. Len(seq)}

\* C8 (as claimed; fails on the code): after a markup or script render the
\* injected subtree holds no inert script node: each script of the markup has
\* been replaced, in its place, by a fresh script node with the same text.
C8_ScriptsReplacedInPlace ==
    (last.op = "render" /\ last.strategy \in {"renderHTML", "renderJavascript"}) =>
        LET kids == dom[last.element].childNodes
            subtree == kids[Len(kids)]
        IN /\ \A sc \in SeqToSet(getElementsByTagName(subtree, "script")) : ~sc.inert
           /\ Skeleton(subtree.childNodes) = Skeleton(ParseHTML(InjectedMarkup(last)))

\* C8 (amended): after a markup or script render the injected subtree is as
\* the parser made it, every original inert script node still in its place and
\* no other node added; for each original script, in document order, domEval
\* has inserted (and removed again) one freshly constructed script node with
\* the same text body and only attributes of the allow-list.
C8_ScriptsReinsertedAndRemoved ==
    [][ (RenderStep /\ last'.strategy \in {"renderHTML", "renderJavascript"}) =>
            LET e == last'.element
                subtree == NewChildren(e)[1]
                originals == getElementsByTagName(subtree, "script")
                fresh == SubSeq(inserted', Len(inserted) + 1, Len(inserted'))
            IN /\ Len(NewChildren(e)) = 1
               /\ subtree.childNodes = ParseHTML(InjectedMarkup(last'))
               /\ \A sc \in SeqToSet(originals) : sc.inert
               /\ Len(fresh) = Len(originals)
               /\ \A k \in 1 .. Len(fresh) :
                    /\ ~fresh[k].inert
                    /\ fresh[k].tagName = "script"
                    /\ fresh[k].text = originals[k].text
                    /\ DOMAIN fresh[k].attributes \subseteq SeqToSet(preservedScriptAttributes)
                    /\ \A key \in DOMAIN fresh[k].attributes :
                            fresh[k].attributes[key] = getAttribute(originals[k], key) ]_vars

\* C8 witness: markup with two script tags was rendered and revived
C8_Witness ==
    /\ last.op = "render"
    /\ last.strategy = "renderHTML"
    /\ last.text = HtmlScripts
    /\ Len(inserted) >= 2
    /\ inserted[Len(inserted)].text = "b()"
    /\ Len(getElementsByTagName(dom[last.element], "script")) >= 2

\* ------------------------------------------------------------------- C9

\* a field is present in the decoded record
IsPresent(err, key) == key \in DOMAIN err.fields

\* a field is present in the decoded record and is not the empty string
IsNonEmpty(err, key) == key \in DOMAIN err.fields /\ err.fields[key] # ""

\* what renderError appends after its (empty) first child, for a decoded
\* record: with a stack, one traceback block and no header; without, the
\* header "name: message", or the one of the two there is, or nothing
ErrorContent(Has(_, _), e, err) ==
    LET content == Tail(NewChildren(e)) IN
    IF Has(err, "stack")
    THEN /\ Len(content) = 1
         /\ content[1].tagName = "pre"
         /\ "traceback" \in content[1].classList
         /\ TextContent(content[1]) = err.fields["stack"]
    ELSE IF Has(err, "name") /\ Has(err, "message")
    THEN /\ Len(content) = 1
         /\ content[1].tagName = "div"
         /\ TextContent(content[1]) = err.fields["name"] \o ": " \o err.fields["message"]
    ELSE IF Has(err, "name") \/ Has(err, "message")
    THEN /\ Len(content) = 1
         /\ content[1].tagName = "div"
         /\ TextContent(content[1]) =
                (IF Has(err, "name") THEN err.fields["name"] ELSE err.fields["message"])
    ELSE content = <<>>

\* a render of a structured-error payload that decodes to a record
ErrorRecordStep ==
    /\ RenderStep
    /\ last'.strategy = "renderError"
    /\ JSONParse(last'.text).ok
    /\ JSONParse(last'.text).kind = "object"

\* C9 (as claimed; fails on the code): content selection by the presence of
\* stack, name and message in the decoded record.
C9_ContentByPresence ==
    [][ ErrorRecordStep =>
            ErrorContent(IsPresent, last'.element, JSONParse(last'.text)) ]_vars

\* C9 (amended): content selection by stack, name and message being present
\* and non-empty: with a non-empty stack, one traceback block and no header;
\* otherwise the header "name: message" when both are non-empty, else the one
\* that is non-empty, and no header node when neither is.
C9_ContentByNonEmpty ==
    [][ ErrorRecordStep =>
            ErrorContent(IsNonEmpty, last'.element, JSONParse(last'.text)) ]_vars

\* C9 witness: the record with name and message and no stack was rendered as
\* the header line "TypeError: x is undefined"
C9_Witness ==
    /\ last.op = "render"
    /\ last.strategy = "renderError"
    /\ last.text = "{\"name\":\"TypeError\",\"message\":\"x is undefined\"}"
    /\ LET kids == dom[last.element].childNodes
       IN kids[Len(kids)].text = "TypeError: x is undefined"

\* ------------------------------------------------------------------ C10

\* C10 (as claimed; fails on the code): disposeOutputItem(id) with an identity
\* given, the empty string included, invokes at most the Disposer registered
\* under that identity and none registered under another.
C10_IdentityGivenDisposesOne ==
    [][ (DisposeStep /\ last'.id # Undefined) =>
            LET map == disposables[last'.a]
            IN last'.invoked \subseteq
                    (IF last'.id \in DOMAIN map THEN {map[last'.id]} ELSE {}) ]_vars

\* ------------------------------------------------------------------ C11

\* C11 (as claimed; fails on the code): in every reachable state every
\* identity with an entry in a registry maps to a Disposer whose object URL
\* has been created and is not yet revoked.
C11_EntriesHoldLiveResources ==
    \A a \in DOMAIN disposables : \A i \in DOMAIN disposables[a] :
        /\ disposables[a][i] \in DOMAIN objectURLs
        /\ objectURLs[disposables[a][i]] = "live"

\* ------------------------------------------------------------------ C12

\* C12 (as claimed; fails on the code): in a run of stream payloads of one
\* mime rendered one after the other into adjacent sibling slots, every render
\* after the first is merged into the preceding block: a stream render into
\* slot e that directly follows a stream render of the same mime into slot
\* e - 1 creates no block on its own surface.
C12_LaterChunksCreateNoBlock ==
    [][ ( /\ RenderStep
          /\ last'.strategy = "renderStream"
          /\ last'.element >= 2
          /\ last.op = "render"
          /\ last.strategy = "renderStream"
          /\ last.mime = last'.mime
          /\ last.element = last'.element - 1 ) =>
            /\ dom'[last'.element] = dom[last'.element]
            /\ Cardinality(last'.mutated) = 1 ]_vars

\* ------------------------------------------------------------------ C13

\* C13 (as claimed; fails on the code): no renderOutputItem or
\* disposeOutputItem call raises to the host, whatever the mime and the text.
C13_NoCallRaises ==
    last.op \in {"render", "dispose"} => ~last.raised

\* ------------------------------------------------------------------ C14

\* C14: after a render of a structured-error payload whose text decodes, and
\* from which renderError returned, the surface carries the error mark,
\* whichever branch ran: traceback, header, or no header at all.
C14_DecodedErrorMarksSurface ==
    ( /\ last.op = "render"
      /\ last.strategy = "renderError"
      /\ JSONParse(last.text).ok
      /\ ~last.raised ) =>
        "error" \in dom[last.element].classList

\* C14 witness: the record without stack, name and message was rendered: no
\* header was appended, and the surface is marked
C14_Witness ==
    /\ last.op = "render"
    /\ last.strategy = "renderError"
    /\ last.text = "{}"
    /\ ~last.raised
    /\ Len(dom[last.element].childNodes) = 1
    /\ "error" \in dom[last.element].classList

\* ------------------------------------------------------------------ C15

\* C15: every markup/script render is gated by the trust value current at
\* that call, whatever happened before: it proceeds (runs its strategy and
\* changes its surface) exactly when the workspace is trusted at the call, so
\* the first render after a change of trust already follows the new value.
C15_TrustReadAtEachRender ==
    [][ (RenderStep /\ last'.mime \in GatedMimes) =>
            /\ last'.trusted = isTrusted
            /\ (last'.mutated = {last'.element}) <=> isTrusted
            /\ (last'.mutated = {}) <=> ~isTrusted
            /\ (last'.strategy # "none") <=> isTrusted
            /\ last.op = "setTrusted" => ((dom' # dom) <=> last.trusted) ]_vars

\* C15 witness: a render proceeded while the workspace was trusted, the host
\* withdrew the trust, and the next render was a no-op
C15_Witness ==
    /\ calls = 3
    /\ last.op = "render"
    /\ last.mime \in GatedMimes
    /\ ~last.trusted
    /\ last.mutated = {}
    /\ Len(dom[last.element].childNodes) = 1

\* ------------------------------------------------------------------ C16

\* the Disposers a registry holds
Registered(map) == {map[k] : k \in DOMAIN map}

\* C16: an activate call adds an empty registry and leaves the others as they
\* are; a renderOutputItem of one activation leaves every other activation's
\* registry as it is; a disposeOutputItem of one activation, with or without
\* an identity, invokes only Disposers of its own registry; and no Disposer is
\* ever held by the registries of two activations, equal identities included.
C16_ActivationsIsolated ==
    [][ /\ last'.op = "activate" =>
              /\ Len(disposables') = Len(disposables) + 1
              /\ disposables'[Len(disposables')] = <<>>
              /\ \A b \in DOMAIN disposables : disposables'[b] = disposables[b]
        /\ RenderStep =>
              \A b \in DOMAIN disposables \ {last'.a} : disposables'[b] = disposables[b]
        /\ DisposeStep =>
              /\ last'.invoked \subseteq Registered(disposables[last'.a])
              /\ \A b \in DOMAIN disposables \ {last'.a} :
                    last'.invoked \cap Registered(disposables[b]) = {}
              /\ \A h \in DOMAIN disposeCount :
                    h \notin Registered(disposables[last'.a]) =>
                        /\ disposeCount'[h] = disposeCount[h]
                        /\ objectURLs'[h] = objectURLs[h]
        /\ \A a \in DOMAIN disposables' : \A b \in DOMAIN disposables' \ {a} :
              Registered(disposables'[a]) \cap Registered(disposables'[b]) = {} ]_vars

\* C16 witness: two activations each hold an entry for the identity "a", and
\* a disposeOutputItem("a") of the first invoked its own Disposer only
C16_Witness ==
    /\ Len(disposables) = 2
    /\ "a" \in DOMAIN disposables[1]
    /\ "a" \in DOMAIN disposables[2]
    /\ last.op = "dispose"
    /\ last.a = 1
    /\ last.id = "a"
    /\ last.invoked = {disposables[1]["a"]}
    /\ disposeCount[disposables[2]["a"]] = 0
    /\ objectURLs[disposables[2]["a"]] = "live"

\* ------------------------------------------------------------------ C17

\* C17: a stream payload rendered onto a surface that has no parent container
\* is a no-op: the call does not raise, no surface changes (no child, no mime
\* marker, no error mark) and the registry stays as it is.
C17_StreamWithoutParentIsNoop ==
    [][ (RenderStep /\ last'.strategy = "renderStream" /\ parentElement(last'.element) = 0) =>
            /\ ~last'.raised
            /\ dom' = dom
            /\ disposables' = disposables
            /\ objectURLs' = objectURLs ]_vars

\* C17 witness: an error-stream chunk was handed the detached surface, which
\* already showed a plain-text output, and nothing changed
C17_Witness ==
    /\ last.op = "render"
    /\ last.strategy = "renderStream"
    /\ last.error
    /\ parentElement(last.element) = 0
    /\ last.mutated = {}
    /\ Len(dom[last.element].childNodes) = 1
    /\ getAttribute(dom[last.element], StreamMarker) = Null
    /\ "error" \notin dom[last.element].classList

====
